---- MODULE Spec2Model ----
(***************************************************************************)
(* Model of Scripts/integrate_security_xcode.py: the script that patches   *)
(* an Xcode project manifest (project.pbxproj) by literal string           *)
(* replacement and regular-expression substitution.                        *)
(*                                                                         *)
(* A manifest is a sequence of lexemes.  Every literal and every character *)
(* class the script matches on (a section terminator, a record head, the   *)
(* opening of a list, a closing brace, a closing parenthesis) is a lexeme  *)
(* or a property of one, so str.replace and re.sub are modelled by what    *)
(* they do on the text: every occurrence is replaced, and a character      *)
(* class stops at the first lexeme holding the excluded character.  Labels *)
(* inside comments are taken to hold no closing brace or parenthesis.      *)
(***************************************************************************)
EXTENDS Naturals, Sequences, FiniteSets, TLC

VARIABLES
    fs_project,     \* the file at project_path: [exists, data]
    fs_backup,      \* the file at project_path + ".backup": [exists, data]
    pc,             \* position of the script
    content,        \* local variable content of add_security_files_to_project
    file_refs,      \* dict file -> identifier
    build_refs,     \* dict file -> identifier
    security_group_uuid,
    framework_ref,
    framework_build,
    appcheck_uuid,
    stdout,         \* lines printed so far
    original,       \* history: the manifest as it was when the script started
    collisions      \* history: how many generate_uuid() results repeated an identifier

vars == <<fs_project, fs_backup, pc, content, file_refs, build_refs,
          security_group_uuid, framework_ref, framework_build, appcheck_uuid,
          stdout, original, collisions>>

----------------------------------------------------------------------------
(* Bounds *)

\* generate_uuid() results that repeat an identifier already in use, per run
MaxCollisions == 1

----------------------------------------------------------------------------
(* Lexemes of the manifest *)

NoId == ""

Tok(k, id, name, ref, phase) ==
    [k |-> k, id |-> id, name |-> name, ref |-> ref, phase |-> phase]

\* "/* End PBXFileReference section */" and the like
Sentinel(name) == Tok("Sentinel", NoId, name, NoId, "")
\* "<id> /* <name> */ = {"
RecHead(id, name) == Tok("Head", id, name, NoId, "")
\* text without braces or parentheses: "isa = PBXGroup;", "path = Security;"
Text(name) == Tok("Text", NoId, name, NoId, "")
\* "children = (", "files = (", "packageProductDependencies = ("
ListOpen(name) == Tok("ListOpen", NoId, name, NoId, "")
\* ");"
ListClose == Tok("ListClose", NoId, "", NoId, "")
\* "};"
RecClose == Tok("RecClose", NoId, "", NoId, "")
\* a closing brace no ";" follows
Brace == Tok("Brace", NoId, "", NoId, "")
\* "<id> /* <name> */," or "<id> /* <name> in <phase> */,"
Entry(id, name, phase) == Tok("Entry", id, name, NoId, phase)
\* "<id> /* <name> */ = {isa = PBXFileReference; ... };"
FileRef(id, name) == Tok("FileRef", id, name, NoId, "")
\* "<id> /* <name> in <phase> */ = {isa = PBXBuildFile; fileRef = <ref> /* <name> */; };"
BuildFile(id, name, ref, phase) == Tok("BuildFile", id, name, ref, phase)

\* the lexeme holds a "}"
HasBrace(t) == t.k \in {"RecClose", "Brace", "FileRef", "BuildFile"}
\* the first "}" of the lexeme is followed by ";"
HasBraceSemi(t) == t.k \in {"RecClose", "FileRef", "BuildFile"}
\* the lexeme holds a ")"
HasParen(t) == t.k = "ListClose"

----------------------------------------------------------------------------
(* Program constants *)

security_files ==
    << "CertificatePinner.swift", "NetworkSecurityManager.swift",
       "BiometricAuthManager.swift", "SecureStorageMigrator.swift",
       "AuditLogger.swift" >>

file_ref_section == Sentinel("End PBXFileReference section")
group_section == Sentinel("End PBXGroup section")
build_file_section == Sentinel("End PBXBuildFile section")

OmniAIGroupId == "1D1A1A282C8F123400123456"
SourcesPhaseId == "1D1A1A222C8F123400123456"
FrameworksPhaseId == "1D1A1A232C8F123400123456"
FirebaseStorageId == "888E270B2E553E3E00609191"

LocalAuthentication == "LocalAuthentication.framework"
FirebaseAppCheck == "FirebaseAppCheck"

----------------------------------------------------------------------------
(* Python's string operations, on lexeme sequences *)

Min(S) == CHOOSE n \in S : \A m \in S : n <= m
Max(S) == CHOOSE n \in S : \A m \in S : m <= n

\* needle in content: the needles of lines 96 and 117 are names that lexemes
\* carry, and no other lexeme of the manifests below holds them in part
Contains(s, needle) == \E i \in 1..Len(s) : s[i].name = needle

\* s.count(t)
Count(s, t) == Cardinality({i \in 1..Len(s) : s[i] = t})

\* content.replace(old, new) from lexeme i on: every occurrence of old
\* becomes new, the text between the occurrences is kept
RECURSIVE ReplaceFrom(_, _, _, _)
ReplaceFrom(s, old, new, i) ==
    LET I == {n \in i..Len(s) : s[n] = old} IN
    IF I = {} THEN SubSeq(s, i, Len(s))
    ELSE SubSeq(s, i, Min(I) - 1) \o new \o ReplaceFrom(s, old, new, Min(I) + 1)

\* mutant: the replacement text leaves the terminator out
str_replace_drop(s, old, new) == ReplaceFrom(s, old, SubSeq(new, 1, Len(new) - 1), 1)

\* mutant: text whose anchor is missing is appended at the end
str_replace_or_append(s, old, new) ==
    IF Count(s, old) = 0 THEN s \o new ELSE ReplaceFrom(s, old, new, 1)

str_replace(s, old, new) == ReplaceFrom(s, old, new, 1)

\* index of the first lexeme at or after i that holds "}" (")"), Len(s)+1 if none
FirstBrace(s, i) ==
    LET S == {n \in i..Len(s) : HasBrace(s[n])} IN IF S = {} THEN Len(s) + 1 ELSE Min(S)
FirstParen(s, i) ==
    LET S == {n \in i..Len(s) : HasParen(s[n])} IN IF S = {} THEN Len(s) + 1 ELSE Min(S)

\* A pattern  (<head>[^}]*<open>[^)]*)  matched at lexeme i: the index just past
\* the match, 0 when it does not match there.  [^}]* is greedy and backtracks
\* to the last <open> before the first "}"; [^)]* runs to the first ")" or to
\* the end of the text.  A pattern that is only (<open>[^)]*) has head = open.
ListMatchEnd(s, i, p) ==
    IF s[i] # p.head THEN 0
    ELSE LET J == IF p.head = p.open THEN {i}
                  ELSE {j \in (i + 1)..(FirstBrace(s, i + 1) - 1) : s[j] = p.open}
         IN  IF J = {} THEN 0 ELSE FirstParen(s, Max(J) + 1)

\* re.sub(pattern, lambda m: m.group(1) + add, content) for such a pattern:
\* every non-overlapping match, leftmost first
RECURSIVE SubListFrom(_, _, _, _)
SubListFrom(s, i, p, add) ==
    LET I == {n \in i..Len(s) : ListMatchEnd(s, n, p) # 0} IN
    IF I = {} THEN SubSeq(s, i, Len(s))
    ELSE LET k == ListMatchEnd(s, Min(I), p) IN
         SubSeq(s, i, k - 1) \o add \o SubListFrom(s, k, p, add)

re_sub_list(p, add, s) == SubListFrom(s, 1, p, add)

\* A pattern  (<head>[^}]*\};)  matched at lexeme i: the index of the lexeme
\* that ends the match, 0 when it does not match there
RecordMatchEnd(s, i, head) ==
    IF s[i] # head THEN 0
    ELSE LET b == FirstBrace(s, i + 1) IN
         IF b <= Len(s) /\ HasBraceSemi(s[b]) THEN b ELSE 0

\* re.sub(pattern, r'\1' + add, content) for such a pattern
RECURSIVE SubRecordFrom(_, _, _, _)
SubRecordFrom(s, i, head, add) ==
    LET I == {n \in i..Len(s) : RecordMatchEnd(s, n, head) # 0} IN
    IF I = {} THEN SubSeq(s, i, Len(s))
    ELSE LET b == RecordMatchEnd(s, Min(I), head) IN
         SubSeq(s, i, b) \o add \o SubRecordFrom(s, b + 1, head, add)

re_sub_record(head, add, s) == SubRecordFrom(s, 1, head, add)

----------------------------------------------------------------------------
(* generate_uuid *)

\* stand-ins for the values uuid.uuid4().hex[:24].upper() can take
UuidSpace ==
    << "U01", "U02", "U03", "U04", "U05", "U06", "U07", "U08", "U09", "U10",
       "U11", "U12", "U13", "U14", "U15", "U16", "U17", "U18", "U19", "U20",
       "U21", "U22", "U23", "U24", "U25", "U26", "U27", "U28", "U29", "U30" >>

UuidSet == {UuidSpace[n] : n \in 1..Len(UuidSpace)}

\* the identifiers a document holds
IdsOf(s) == ({s[i].id : i \in 1..Len(s)} \cup {s[i].ref : i \in 1..Len(s)}) \ {NoId}

Fresh(used) == UuidSpace[Min({n \in 1..Len(UuidSpace) : UuidSpace[n] \notin used})]

\* The values one call may return, given the identifiers in use: a value not
\* seen so far, or (nothing checks for it) one that is already in use.
generate_uuid(used, budget) ==
    {Fresh(used)} \cup (IF budget > 0 THEN used \cap UuidSet ELSE {})

----------------------------------------------------------------------------
(* The steps of add_security_files_to_project, as functions of the text *)

\* f-string of line 46, one per file, in order
file_ref_entries(frefs) ==
    [n \in 1..Len(security_files) |-> FileRef(frefs[security_files[n]], security_files[n])]

\* 1. Add PBXFileReference entries
AddFileReferences(c, frefs) ==
    str_replace(c, file_ref_section, file_ref_entries(frefs) \o <<file_ref_section>>)

security_group(frefs, g) ==
    << RecHead(g, "Security"), Text("isa = PBXGroup;"), ListOpen("children") >>
    \o [n \in 1..Len(security_files) |->
            Entry(frefs[security_files[n]], security_files[n], "")]
    \o << ListClose, Text("path = Security; sourceTree = <group>;"), RecClose >>

\* 2. Add Security group
AddSecurityGroup(c, frefs, g) ==
    str_replace(c, group_section, security_group(frefs, g) \o <<group_section>>)

omniai_pattern ==
    [head |-> RecHead(OmniAIGroupId, "OmniAI"), open |-> ListOpen("children")]

\* 3. Add Security group to OmniAI group
AddToOmniAIGroup(c, g) ==
    re_sub_list(omniai_pattern, <<Entry(g, "Security", "")>>, c)

\* mutant: fileRef names the build file itself
build_file_entries_self(frefs, brefs) ==
    [n \in 1..Len(security_files) |->
        BuildFile(brefs[security_files[n]], security_files[n],
                  brefs[security_files[n]], "Sources")]

build_file_entries(frefs, brefs) ==
    [n \in 1..Len(security_files) |->
        BuildFile(brefs[security_files[n]], security_files[n],
                  frefs[security_files[n]], "Sources")]

\* 4. Add PBXBuildFile entries
AddBuildFiles(c, frefs, brefs) ==
    str_replace(c, build_file_section,
                build_file_entries(frefs, brefs) \o <<build_file_section>>)

sources_pattern ==
    [head |-> RecHead(SourcesPhaseId, "Sources"), open |-> ListOpen("files")]

add_to_sources(brefs) ==
    [n \in 1..Len(security_files) |->
        Entry(brefs[security_files[n]], security_files[n], "Sources")]

\* 5. Add to PBXSourcesBuildPhase
AddToSources(c, brefs) == re_sub_list(sources_pattern, add_to_sources(brefs), c)

frameworks_pattern ==
    [head |-> RecHead(FrameworksPhaseId, "Frameworks"), open |-> ListOpen("files")]

\* mutant: no presence check
FrameworkAlwaysAbsent(c) == TRUE

\* the test of line 96
FrameworkAbsent(c) == ~Contains(c, LocalAuthentication)

\* 6. Add LocalAuthentication framework
AddFramework(c, fref, fbuild) ==
    IF FrameworkAbsent(c)
    THEN LET c1 == str_replace(c, file_ref_section,
                       <<FileRef(fref, LocalAuthentication), file_ref_section>>)
             c2 == str_replace(c1, build_file_section,
                       <<BuildFile(fbuild, LocalAuthentication, fref, "Frameworks"),
                         build_file_section>>)
         IN  re_sub_list(frameworks_pattern,
                         <<Entry(fbuild, LocalAuthentication, "Frameworks")>>, c2)
    ELSE c

firebase_deps_pattern == RecHead(FirebaseStorageId, "FirebaseStorage")

appcheck_dep(u) ==
    << RecHead(u, FirebaseAppCheck),
       Text("isa = XCSwiftPackageProductDependency; package = 888E26FE2E553E3E00609191;"),
       Text("productName = FirebaseAppCheck;"),
       RecClose >>

target_deps_pattern ==
    [head |-> ListOpen("packageProductDependencies"),
     open |-> ListOpen("packageProductDependencies")]

\* the test of line 117
AppCheckAbsent(c) == ~Contains(c, FirebaseAppCheck)

\* 7. Add FirebaseAppCheck if not present
AddAppCheck(c, u) ==
    IF AppCheckAbsent(c)
    THEN LET c1 == re_sub_record(firebase_deps_pattern, appcheck_dep(u), c)
         IN  re_sub_list(target_deps_pattern, <<Entry(u, FirebaseAppCheck, "")>>, c1)
    ELSE c

----------------------------------------------------------------------------
(* Manifests the script is run on *)

\* A project manifest with the records the script anchors on, the parts
\* named in omit left out, the parts named in twice occurring twice, and
\* the lexemes of extra at its end.
Part(name, omit, twice, lexemes) ==
    IF name \in omit THEN <<>>
    ELSE IF name \in twice THEN lexemes \o lexemes
    ELSE lexemes

Manifest(omit, twice, extra) ==
    << Text("// !$*UTF8*$!") >>
    \o << BuildFile("1D1A1A1C2C8F123400123456", "OmniAIApp.swift",
                    "1D1A1A1B2C8F123400123456", "Sources") >>
    \o Part("EndBuildFile", omit, twice, <<build_file_section>>)
    \o << FileRef("1D1A1A1B2C8F123400123456", "OmniAIApp.swift") >>
    \o Part("EndFileRef", omit, twice, <<file_ref_section>>)
    \o Part("Frameworks", omit, twice,
            << RecHead(FrameworksPhaseId, "Frameworks"),
               Text("isa = PBXFrameworksBuildPhase;"),
               ListOpen("files"), ListClose, RecClose >>)
    \o Part("OmniAI", omit, twice,
            << RecHead(OmniAIGroupId, "OmniAI"), Text("isa = PBXGroup;"),
               ListOpen("children"),
               Entry("1D1A1A1B2C8F123400123456", "OmniAIApp.swift", ""),
               ListClose, Text("path = OmniAI;"), RecClose >>)
    \o Part("EndGroup", omit, twice, <<group_section>>)
    \o Part("Target", omit, twice,
            << RecHead("1D1A1A172C8F123400123456", "OmniAI"),
               Text("isa = PBXNativeTarget;"),
               ListOpen("packageProductDependencies"),
               Entry(FirebaseStorageId, "FirebaseStorage", ""),
               ListClose, RecClose >>)
    \o Part("Sources", omit, twice,
            << RecHead(SourcesPhaseId, "Sources"),
               Text("isa = PBXSourcesBuildPhase;"),
               ListOpen("files"),
               Entry("1D1A1A1C2C8F123400123456", "OmniAIApp.swift", "Sources"),
               ListClose, RecClose >>)
    \o Part("FirebaseStorage", omit, twice,
            << RecHead(FirebaseStorageId, "FirebaseStorage"),
               Text("isa = XCSwiftPackageProductDependency;"),
               RecClose >>)
    \o extra
    \o << Brace >>

Parts ==
    {"EndBuildFile", "EndFileRef", "Frameworks", "OmniAI", "EndGroup",
     "Target", "Sources", "FirebaseStorage"}


WellFormedManifest == Manifest({}, {}, <<>>)

\* a second target with its own packageProductDependencies list
WidgetTarget ==
    << RecHead("1D1A1A302C8F123400123456", "OmniAIWidget"),
       Text("isa = PBXNativeTarget;"),
       ListOpen("packageProductDependencies"), ListClose, RecClose >>

\* comments that name the framework and the package product
Mentions == << Text(LocalAuthentication), Text(FirebaseAppCheck) >>

\* lines 42-139 as one function of the text and of the identifiers drawn
Patch(c, frefs, brefs, g, fref, fbuild, ac) ==
    LET c1 == AddFileReferences(c, frefs)
        c2 == AddSecurityGroup(c1, frefs, g)
        c3 == AddToOmniAIGroup(c2, g)
        c4 == AddBuildFiles(c3, frefs, brefs)
        c5 == AddToSources(c4, brefs)
        c6 == AddFramework(c5, fref, fbuild)
    IN  AddAppCheck(c6, ac)

\* the manifest an earlier run of the script left behind
PatchedManifest ==
    Patch(WellFormedManifest,
          [f \in {security_files[n] : n \in 1..Len(security_files)} |->
              UuidSpace[2 * (CHOOSE n \in 1..Len(security_files) : security_files[n] = f) - 1]],
          [f \in {security_files[n] : n \in 1..Len(security_files)} |->
              UuidSpace[2 * (CHOOSE n \in 1..Len(security_files) : security_files[n] = f)]],
          "U11", "U12", "U13", "U14")

Manifests ==
    {WellFormedManifest}
    \cup {Manifest({p}, {}, <<>>) : p \in Parts}
    \cup { Manifest(Parts, {}, <<>>),
           Manifest(Parts \ {"Target"}, {}, <<>>),
           Manifest({"EndBuildFile", "EndFileRef"}, {}, <<>>),
           Manifest({}, {"EndBuildFile", "EndFileRef", "EndGroup"}, <<>>),
           Manifest({}, {}, WidgetTarget),
           Manifest({}, {}, Mentions) }

\* A file: whether it exists, its text, and the line terminator its bytes use.
LF == "\n"
CRLF == "\r\n"
NoFile == [exists |-> FALSE, data |-> <<>>, newline |-> LF]
OnDisk(data, newline) == [exists |-> TRUE, data |-> data, newline |-> newline]

\* open(path, 'r').read(): text mode, every line terminator read as "\n"
ReadText(f) == f.data
\* open(path, 'w').write(text): text mode, "\n" written as os.linesep, which
\* is "\n" on the host the script's paths name
WriteText(text) == OnDisk(text, LF)

\* what an earlier, unrelated backup holds
StaleBackup == OnDisk(<<Text("// stale")>>, LF)

\* manifests that also occur with CRLF line terminators
CrlfManifests == {WellFormedManifest, Manifest(Parts, {}, <<>>)}

----------------------------------------------------------------------------
(* The script *)

EmptyDict == [f \in {} |-> NoId]
Values(d) == {d[f] : f \in DOMAIN d}

\* identifiers in use when generate_uuid is called
InUse ==
    (IdsOf(content) \cup Values(file_refs) \cup Values(build_refs)
     \cup {security_group_uuid, framework_ref, framework_build, appcheck_uuid})
    \ {NoId}

Repeats(u, used) == IF u \in used THEN 1 ELSE 0

Init ==
    /\ fs_project \in {NoFile} \cup {OnDisk(m, LF) : m \in Manifests}
                          \cup {OnDisk(m, CRLF) : m \in CrlfManifests}
    /\ fs_backup \in {NoFile, StaleBackup}
    /\ pc = "main"
    /\ content = <<>>
    /\ file_refs = EmptyDict
    /\ build_refs = EmptyDict
    /\ security_group_uuid = NoId
    /\ framework_ref = NoId
    /\ framework_build = NoId
    /\ appcheck_uuid = NoId
    /\ stdout = <<>>
    /\ original = fs_project
    /\ collisions = 0

\* lines 157-163: the project file exists, copy it to the backup path
MainBackup ==
    /\ pc = "main"
    /\ fs_project.exists
    /\ fs_backup' = WriteText(ReadText(fs_project))
    /\ stdout' = Append(stdout, "Created backup")
    /\ pc' = "read"
    /\ UNCHANGED <<fs_project, content, file_refs, build_refs, security_group_uuid,
                   framework_ref, framework_build, appcheck_uuid, original, collisions>>

\* mutant: the backup file is opened for writing before the test of line 157
MainNotFoundTouch ==
    /\ pc = "main"
    /\ ~fs_project.exists
    /\ fs_backup' = WriteText(<<>>)
    /\ stdout' = Append(stdout, "Project file not found")
    /\ pc' = "done"
    /\ UNCHANGED <<fs_project, content, file_refs, build_refs,
                   security_group_uuid, framework_ref, framework_build, appcheck_uuid,
                   original, collisions>>

\* lines 167-168: the project file does not exist
MainNotFound ==
    /\ pc = "main"
    /\ ~fs_project.exists
    /\ stdout' = Append(stdout, "Project file not found")
    /\ pc' = "done"
    /\ UNCHANGED <<fs_project, fs_backup, content, file_refs, build_refs,
                   security_group_uuid, framework_ref, framework_build, appcheck_uuid,
                   original, collisions>>

\* lines 20-21
ReadProject ==
    /\ pc = "read"
    /\ content' = ReadText(fs_project)
    /\ pc' = "uuids"
    /\ UNCHANGED <<fs_project, fs_backup, file_refs, build_refs, security_group_uuid,
                   framework_ref, framework_build, appcheck_uuid, stdout, original,
                   collisions>>

\* lines 35-37: one iteration of the loop
GenerateFileUuids ==
    /\ pc = "uuids"
    /\ LET n == Cardinality(DOMAIN file_refs) + 1
           file == security_files[n]
       IN  \E u1 \in generate_uuid(InUse, MaxCollisions - collisions) :
             LET c1 == collisions + Repeats(u1, InUse) IN
             \E u2 \in generate_uuid(InUse \cup {u1}, MaxCollisions - c1) :
               /\ file_refs' = (file :> u1) @@ file_refs
               /\ build_refs' = (file :> u2) @@ build_refs
               /\ collisions' = c1 + Repeats(u2, InUse \cup {u1})
               /\ pc' = IF n = Len(security_files) THEN "group_uuid" ELSE "uuids"
    /\ UNCHANGED <<fs_project, fs_backup, content, security_group_uuid, framework_ref,
                   framework_build, appcheck_uuid, stdout, original>>

\* line 40
GenerateGroupUuid ==
    /\ pc = "group_uuid"
    /\ \E u \in generate_uuid(InUse, MaxCollisions - collisions) :
         /\ security_group_uuid' = u
         /\ collisions' = collisions + Repeats(u, InUse)
    /\ pc' = "file_refs"
    /\ UNCHANGED <<fs_project, fs_backup, content, file_refs, build_refs, framework_ref,
                   framework_build, appcheck_uuid, stdout, original>>

\* a step that rewrites content and draws no identifier
Step(from, to, new) ==
    /\ pc = from
    /\ content' = new
    /\ pc' = to
    /\ UNCHANGED <<fs_project, fs_backup, file_refs, build_refs, security_group_uuid,
                   framework_ref, framework_build, appcheck_uuid, stdout, original,
                   collisions>>

\* lines 42-48
StepFileReferences ==
    Step("file_refs", "group", AddFileReferences(content, file_refs))

\* lines 50-66
StepSecurityGroup ==
    Step("group", "parent", AddSecurityGroup(content, file_refs, security_group_uuid))

\* lines 68-74
StepOmniAIGroup ==
    Step("parent", "build_files", AddToOmniAIGroup(content, security_group_uuid))

\* lines 76-82
StepBuildFiles ==
    Step("build_files", "sources", AddBuildFiles(content, file_refs, build_refs))

\* lines 84-92
StepSources ==
    Step("sources", "framework", AddToSources(content, build_refs))

\* lines 94-114
StepFramework ==
    /\ pc = "framework"
    /\ IF FrameworkAbsent(content)
       THEN \E u1 \in generate_uuid(InUse, MaxCollisions - collisions) :
              LET c1 == collisions + Repeats(u1, InUse) IN
              \E u2 \in generate_uuid(InUse \cup {u1}, MaxCollisions - c1) :
                /\ framework_ref' = u1
                /\ framework_build' = u2
                /\ collisions' = c1 + Repeats(u2, InUse \cup {u1})
                /\ content' = AddFramework(content, u1, u2)
       ELSE UNCHANGED <<framework_ref, framework_build, collisions, content>>
    /\ pc' = "appcheck"
    /\ UNCHANGED <<fs_project, fs_backup, file_refs, build_refs, security_group_uuid,
                   appcheck_uuid, stdout, original>>

\* lines 116-139
StepAppCheck ==
    /\ pc = "appcheck"
    /\ IF AppCheckAbsent(content)
       THEN \E u \in generate_uuid(InUse, MaxCollisions - collisions) :
              /\ appcheck_uuid' = u
              /\ collisions' = collisions + Repeats(u, InUse)
              /\ content' = AddAppCheck(content, u)
       ELSE UNCHANGED <<appcheck_uuid, collisions, content>>
    /\ pc' = "write"
    /\ UNCHANGED <<fs_project, fs_backup, file_refs, build_refs, security_group_uuid,
                   framework_ref, framework_build, stdout, original>>

\* lines 141-152
WriteProject ==
    /\ pc = "write"
    /\ fs_project' = WriteText(content)
    /\ stdout' = stdout \o << "Successfully integrated Security files", "Added files" >>
                        \o security_files
                        \o << "Added LocalAuthentication.framework",
                              "Added FirebaseAppCheck dependency" >>
    /\ pc' = "done"
    /\ UNCHANGED <<fs_backup, content, file_refs, build_refs, security_group_uuid,
                   framework_ref, framework_build, appcheck_uuid, original, collisions>>

Next ==
    \/ MainBackup
    \/ MainNotFound
    \/ ReadProject
    \/ GenerateFileUuids
    \/ GenerateGroupUuid
    \/ StepFileReferences
    \/ StepSecurityGroup
    \/ StepOmniAIGroup
    \/ StepBuildFiles
    \/ StepSources
    \/ StepFramework
    \/ StepAppCheck
    \/ WriteProject

Spec == Init /\ [][Next]_vars

\* the script run again on the manifest an earlier run wrote
InitRerun ==
    /\ fs_project \in {NoFile, OnDisk(PatchedManifest, LF)}
    /\ fs_backup \in {NoFile, StaleBackup, OnDisk(WellFormedManifest, LF)}
    /\ pc = "main"
    /\ content = <<>>
    /\ file_refs = EmptyDict
    /\ build_refs = EmptyDict
    /\ security_group_uuid = NoId
    /\ framework_ref = NoId
    /\ framework_build = NoId
    /\ appcheck_uuid = NoId
    /\ stdout = <<>>
    /\ original = fs_project
    /\ collisions = 0

SpecRerun == InitRerun /\ [][Next]_vars

----------------------------------------------------------------------------
(* Properties *)

N == Len(security_files)
Sentinels == {file_ref_section, group_section, build_file_section}

KindCount(s, k) == Cardinality({i \in 1..Len(s) : s[i].k = k})

\* the entries of the list named open of the first record that starts with head
ListOf(s, head, open) ==
    LET I == {i \in 1..Len(s) : s[i] = head} IN
    IF I = {} THEN <<>>
    ELSE LET J == {j \in Min(I)..Len(s) : s[j] = open} IN
         IF J = {} THEN <<>>
         ELSE SubSeq(s, Min(J) + 1, FirstParen(s, Min(J) + 1) - 1)

\* each section terminator once, one parent-group record, one sources record
WellFormed(m) ==
    /\ \A t \in Sentinels : Count(m, t) = 1
    /\ Count(m, RecHead(OmniAIGroupId, "OmniAI")) = 1
    /\ Count(m, RecHead(SourcesPhaseId, "Sources")) = 1

\* C1: on a well-formed manifest, steps 1-5 add exactly N file-reference
\* records, N build-file records each naming the file reference of its own
\* file, one Security group record listing the N file references in input
\* order, N entries at the end of the sources build phase's files list, one
\* entry (the new group) at the end of the parent group's children list, and
\* nothing else.
AddSourceFilesContract ==
    (pc = "framework" /\ WellFormed(original.data)) =>
        LET before == original.data
            after == content
            g == security_group_uuid
        IN  /\ KindCount(after, "FileRef") = KindCount(before, "FileRef") + N
            /\ KindCount(after, "BuildFile") = KindCount(before, "BuildFile") + N
            /\ \A n \in 1..N :
                 LET f == security_files[n] IN
                 /\ Count(after, FileRef(file_refs[f], f)) >= 1
                 /\ Count(after, BuildFile(build_refs[f], f, file_refs[f], "Sources")) >= 1
            /\ Count(after, RecHead(g, "Security")) = 1
            /\ ListOf(after, RecHead(g, "Security"), ListOpen("children"))
                 = [n \in 1..N |-> Entry(file_refs[security_files[n]], security_files[n], "")]
            /\ ListOf(after, RecHead(SourcesPhaseId, "Sources"), ListOpen("files"))
                 = ListOf(before, RecHead(SourcesPhaseId, "Sources"), ListOpen("files"))
                   \o [n \in 1..N |->
                         Entry(build_refs[security_files[n]], security_files[n], "Sources")]
            /\ ListOf(after, RecHead(OmniAIGroupId, "OmniAI"), ListOpen("children"))
                 = Append(ListOf(before, RecHead(OmniAIGroupId, "OmniAI"),
                                 ListOpen("children")),
                          Entry(g, "Security", ""))
            /\ Len(after) = Len(before) + N + N + (N + 6) + N + 1

AddSourceFilesApplied ==
    /\ pc = "framework"
    /\ WellFormed(original.data)
    /\ KindCount(content, "FileRef") = KindCount(original.data, "FileRef") + N

\* C2: whatever the manifest, every section terminator occurs in the text
\* being patched, and in the file written back, as often as it occurred in
\* the manifest before the run.
TerminatorsPreserved ==
    /\ pc \notin {"main", "read"} =>
         \A t \in Sentinels : Count(content, t) = Count(original.data, t)
    /\ \A t \in Sentinels : Count(fs_project.data, t) = Count(original.data, t)

TerminatorsPreservedReached ==
    /\ pc = "done"
    /\ Count(original.data, file_ref_section) = 2
    /\ Len(fs_project.data) > Len(original.data)

\* C3: the framework step leaves the text unchanged when it already names the
\* framework, and a second application to its result, with any identifiers,
\* changes nothing.
FrameworkIdempotent ==
    [][pc = "framework" =>
         /\ Contains(content, LocalAuthentication) => content' = content
         /\ \A u1, u2 \in {"U29", "U30"} : AddFramework(content', u1, u2) = content'
      ]_vars

FrameworkAdded ==
    /\ pc = "appcheck"
    /\ framework_ref # NoId
    /\ Count(content, FileRef(framework_ref, LocalAuthentication)) = 1
    /\ ~Contains(original.data, LocalAuthentication)

\* C4: a step whose anchor does not occur in the text leaves the text as it
\* is and hands over to the next step.
SilentNoOp ==
    [][/\ (pc = "file_refs" /\ Count(content, file_ref_section) = 0)
            => (content' = content /\ pc' = "group")
       /\ (pc = "group" /\ Count(content, group_section) = 0)
            => (content' = content /\ pc' = "parent")
       /\ (pc = "parent" /\ Count(content, RecHead(OmniAIGroupId, "OmniAI")) = 0)
            => (content' = content /\ pc' = "build_files")
       /\ (pc = "build_files" /\ Count(content, build_file_section) = 0)
            => (content' = content /\ pc' = "sources")
       /\ (pc = "sources" /\ Count(content, RecHead(SourcesPhaseId, "Sources")) = 0)
            => (content' = content /\ pc' = "framework")
       /\ (/\ pc = "framework"
           /\ Count(content, file_ref_section) = 0
           /\ Count(content, build_file_section) = 0
           /\ Count(content, RecHead(FrameworksPhaseId, "Frameworks")) = 0)
            => (content' = content /\ pc' = "appcheck")
       /\ (/\ pc = "appcheck"
           /\ Count(content, RecHead(FirebaseStorageId, "FirebaseStorage")) = 0
           /\ Count(content, ListOpen("packageProductDependencies")) = 0)
            => (content' = content /\ pc' = "write")
      ]_vars

\* a run on a manifest without any anchor has gone through every step
NoAnchorRunCompleted ==
    /\ pc = "done"
    /\ original.exists
    /\ \A t \in Sentinels : Count(original.data, t) = 0
    /\ Count(original.data, RecHead(OmniAIGroupId, "OmniAI")) = 0
    /\ fs_project = original
    /\ Len(stdout) > 1

\* C5: in a run on an existing manifest, from the backup step on (so before
\* the manifest is written back, and at the end of the run) the backup file
\* holds what the manifest file held when the run started.
BackupHoldsOriginal ==
    (pc # "main" /\ original.exists) => fs_backup = original

\* C6: when the manifest path does not exist, the only step is to print the
\* error line: no file is created or changed and the patch function is not
\* entered.
MissingPathNoMutation ==
    [][~fs_project.exists =>
         /\ fs_project' = fs_project
         /\ fs_backup' = fs_backup
         /\ content' = content
         /\ stdout' = Append(stdout, "Project file not found")
         /\ pc' = "done"
      ]_vars

MissingPathReported ==
    /\ pc = "done"
    /\ ~fs_project.exists
    /\ stdout = <<"Project file not found">>

\* the identifiers the run has drawn
Generated ==
    (Values(file_refs) \cup Values(build_refs)
     \cup {security_group_uuid, framework_ref, framework_build, appcheck_uuid}) \ {NoId}

DefKinds == {"FileRef", "BuildFile", "Head"}

\* no two records of the document carry the same identifier
UniqueIds(s) ==
    \A i, j \in 1..Len(s) :
        (i # j /\ s[i].k \in DefKinds /\ s[j].k \in DefKinds) => s[i].id # s[j].id

\* C7: after a run on a manifest whose records have distinct identifiers and
\* whose section terminators occur at most once, the records of the written
\* manifest have distinct identifiers.
InsertedIdentifiersUnique ==
    (/\ pc = "done"
     /\ original.exists
     /\ UniqueIds(original.data)
     /\ \A t \in Sentinels : Count(original.data, t) <= 1)
        => UniqueIds(fs_project.data)

\* text inserted before the first occurrence of old only
InsertBeforeFirst(s, old, add) ==
    LET I == {i \in 1..Len(s) : s[i] = old} IN
    IF I = {} THEN s
    ELSE SubSeq(s, 1, Min(I) - 1) \o add \o SubSeq(s, Min(I), Len(s))

\* C8: step 1 changes the text at one place, before the first file-reference
\* terminator, and step 7 adds the package product to one
\* packageProductDependencies list.
InsertionAtOnePlace ==
    /\ pc = "group" =>
         content = InsertBeforeFirst(original.data, file_ref_section,
                       [n \in 1..N |-> FileRef(file_refs[security_files[n]],
                                               security_files[n])])
    /\ pc = "write" => Count(content, Entry(appcheck_uuid, FirebaseAppCheck, "")) <= 1

\* C9: a run on the manifest an earlier run wrote leaves the numbers of
\* file-reference records, build-file records, record heads and list entries
\* as they were.
RerunIdempotent ==
    (pc = "done" /\ original = OnDisk(PatchedManifest, LF)) =>
        \A k \in {"FileRef", "BuildFile", "Head", "Entry"} :
            KindCount(fs_project.data, k) = KindCount(original.data, k)

\* C10: in the written manifest every fileRef the run wrote names a
\* file-reference record of the manifest, and every list entry the run wrote
\* names a record of the manifest.
ReferentialIntegrity ==
    (pc = "done" /\ original.exists) =>
        LET d == fs_project.data IN
        \A i \in 1..Len(d) :
            /\ (d[i].k = "BuildFile" /\ d[i].ref \in Generated)
                 => \E j \in 1..Len(d) : d[j].k = "FileRef" /\ d[j].id = d[i].ref
            /\ (d[i].k = "Entry" /\ d[i].id \in Generated)
                 => \E j \in 1..Len(d) : d[j].k \in DefKinds /\ d[j].id = d[i].id

====
